---- MODULE Spec2Model ----
(***************************************************************************)
(* Model of mpbuild's scheduler (src/mpbuild.go, the latest revision of    *)
(* the file: lines 380-877).  One run of run(job, config): the scheduler   *)
(* goroutine (admission pass, drain pass), GPrefs.Workers worker           *)
(* goroutines (workerFetchTask), the output consumer (workerStdout) and    *)
(* the three channels tasks, messages and results; before it, the --deps   *)
(* filter of main.                                                         *)
(***************************************************************************)
EXTENDS Integers, Sequences, FiniteSets, TLC

\* ------------------------------------------------------------------ bounds
NumTasks == 3
MaxWorkers == 2
MaxEdges == 2
MaxCycleEdges == 3

Tasks == 0 .. (NumTasks - 1)
WorkerIds == 1 .. MaxWorkers
\* "no task" / the nil error: a value outside the task positions
NoTask == NumTasks

VARIABLES
    Inputs,          \* Task.Inputs, per task the set of dependency positions
    skipped,         \* tasks on which main's filters called SetCompleted
    aloneCfg,        \* tasks whose label matches a Prefs project with Alone
    windows,         \* runtime.GOOS == "windows"
    ContinueErr,     \* gOpts.ContinueErr
    Workers,         \* GPrefs.Workers
    vsFound,         \* one of the Visual Studio directories exists (os.Stat)
    stalled,         \* tasks whose build command never returns
    seeds,           \* tasks whose label contains one of the --deps names,
                     \* or the --start string
    todo,            \* main's todo map of the --deps filter (its key set)
    Running,         \* Task.Running
    Complete,        \* Task.Complete (0 or 1)
    Err,             \* Task.Err # nil
    tasks,           \* the ready channel, capacity len(job.Tasks)
    tasksClosed,     \* close(tasks) executed
    messagesClosed,  \* close(messages) executed
    results,         \* the result channel, capacity len(job.Tasks)
    pc,              \* position of the scheduler goroutine in main/run
    idx,             \* index of the admission pass's range loop
    cost,            \* run's cost
    numRunning,      \* run's numRunning
    isAloneLaunched, \* run's isAloneLaunched
    tasksCompleted,  \* run's tasksCompleted
    err,             \* run's err: NoTask for nil, else the task whose Err it is
    wpc,             \* position of each worker goroutine
    wtask,           \* the task a worker holds (loop variable task)
    werr,            \* the worker's local err # nil
    proc,            \* the process: "alive", "exited", "panicked" (panic(err)
                     \* or a send on a closed channel) or "fatal" (log.Panic
                     \* of checkWinCompiler)
    \* history variables (observers; no action's guard reads them)
    sentCount,       \* per task: sends on the ready channel
    buildCount,      \* per task: calls of build
    resultCount,     \* per task: sends on the result channel
    drainCount,      \* per task: results received by the scheduler
    delivered,       \* per task: outputs received by workerStdout
    countedTimes,    \* per task: tasksCompleted++ executed on its behalf
    firstMarked,     \* first failed task in completion-marker order
    runningWriters   \* the goroutines that have stored to a Task.Running:
                     \* "main" (main and run) and "worker"

\* what main sets up before it calls run; run and the workers only read it
cfgVars == <<Inputs, skipped, aloneCfg, windows, ContinueErr, Workers, vsFound,
             stalled, seeds, todo>>
taskVars == <<Running, Complete, Err>>
chanVars == <<tasks, tasksClosed, messagesClosed, results>>
schedVars == <<pc, idx, cost, numRunning, isAloneLaunched, tasksCompleted, err>>
workerVars == <<wpc, wtask, werr>>
histVars == <<sentCount, buildCount, resultCount, drainCount, delivered,
              countedTimes, firstMarked, runningWriters>>
vars == <<cfgVars, taskVars, chanVars, schedVars, workerVars, proc, histVars>>

\* ------------------------------------------------------------ task graph
\* Task.Cost: the job gives task t the weight t + 1 (distinct, positive)
Cost(t) == t + 1

IsCompleted(t) == Complete[t] # 0

\* mutant: a dependency counts as done as soon as it has been launched
HasPendingDepsLaunched(t) == \E input \in Inputs[t] : ~Running[input]

\* mutant: a task's dependency on itself is not looked at
HasPendingDepsOthers(t) == \E input \in Inputs[t] \ {t} : ~IsCompleted(input)

HasPendingDeps(t) == \E input \in Inputs[t] : ~IsCompleted(input)

isAloneProject(t) == windows /\ t \in aloneCfg

\* number of dependency edges of a graph
RECURSIVE EdgeCount(_, _)
EdgeCount(g, n) == IF n = 0 THEN 0 ELSE Cardinality(g[n - 1]) + EdgeCount(g, n - 1)

\* the job documents considered: every graph (cyclic ones included) over
\* NumTasks tasks with at most MaxEdges dependency edges
Graphs == {g \in [Tasks -> SUBSET Tasks] : EdgeCount(g, NumTasks) <= MaxEdges}

\* the tasks reachable from the set S along dependency edges, S included
\* (n rounds of expansion)
RECURSIVE DepsOf(_, _)
DepsOf(S, n) ==
    IF n = 0 THEN S
    ELSE DepsOf(S \cup UNION {Inputs[t] : t \in S}, n - 1)

\* the dependency graph has no cycle
Acyclic == \A t \in Tasks : t \notin DepsOf(Inputs[t], NumTasks)

\* ------------------------------------------------------------------ Init
\* mutant: the marker is incremented (atomic.AddInt32) instead of stored
SetCompletedAdd(R, C, t) ==
    [Running |-> [R EXCEPT ![t] = TRUE], Complete |-> [C EXCEPT ![t] = @ + 1]]

\* Task.SetCompleted, the two stores of the function: "t.Running = true" and
\* "atomic.StoreInt32(&t.Complete, 1)", on the fields R and C of all tasks
SetCompleted(R, C, t) ==
    [Running |-> [R EXCEPT ![t] = TRUE], Complete |-> [C EXCEPT ![t] = 1]]

\* a decoded job on which nothing was done yet: every field of every task
\* has its zero value
NoRunning == [t \in Tasks |-> FALSE]
NoComplete == [t \in Tasks |-> 0]

\* SetCompleted called on every task of the set S, one after the other
RECURSIVE SkipAll(_, _, _)
SkipAll(R, C, S) ==
    IF S = {} THEN [Running |-> R, Complete |-> C]
    ELSE LET t == CHOOSE x \in S : TRUE
             m == SetCompleted(R, C, t)
         IN SkipAll(m.Running, m.Complete, S \ {t})

\* the state in which main calls run: the skipped tasks are marked, nothing
\* else has happened
Loaded ==
    /\ Running = SkipAll(NoRunning, NoComplete, skipped).Running
    /\ Complete = SkipAll(NoRunning, NoComplete, skipped).Complete
    /\ Err = [t \in Tasks |-> FALSE]
    /\ tasks = <<>>
    /\ tasksClosed = FALSE
    /\ messagesClosed = FALSE
    /\ results = <<>>
    /\ idx = 0
    /\ cost = 0
    /\ numRunning = 0
    /\ isAloneLaunched = FALSE
    /\ tasksCompleted = 0
    /\ err = NoTask
    /\ wpc = [w \in WorkerIds |-> "unspawned"]
    /\ wtask = [w \in WorkerIds |-> NoTask]
    /\ werr = [w \in WorkerIds |-> FALSE]
    /\ proc = "alive"
    /\ sentCount = [t \in Tasks |-> 0]
    /\ buildCount = [t \in Tasks |-> 0]
    /\ resultCount = [t \in Tasks |-> 0]
    /\ drainCount = [t \in Tasks |-> 0]
    /\ delivered = [t \in Tasks |-> 0]
    /\ countedTimes = [t \in Tasks |-> 0]
    /\ firstMarked = NoTask
    /\ runningWriters = IF skipped = {} THEN {} ELSE {"main"}

\* main is about to call run: any job, any outcome of the filters (skipped),
\* any preferences; every build command returns
Init ==
    /\ Inputs \in Graphs
    /\ skipped \in SUBSET Tasks
    /\ windows \in BOOLEAN
    \* off Windows isAloneProject ignores the Alone flags: one placement of
    \* them (every task flagged) stands for all
    /\ aloneCfg \in IF windows THEN SUBSET Tasks ELSE {Tasks}
    /\ ContinueErr \in BOOLEAN
    /\ Workers \in 0 .. MaxWorkers
    \* off Windows build does not call checkWinCompiler
    /\ vsFound \in IF windows THEN BOOLEAN ELSE {TRUE}
    /\ stalled = {}
    /\ seeds = {}
    /\ todo = {}
    /\ pc = "start"
    /\ Loaded

\* ------------------------------------------------- main: the --deps filter
\* mutant: the test looks at the edge the other way round
DependsOnReversed(t, ID) == t \in Inputs[ID]

\* Task.DependsOn: ID is one of the inputs of task t
DependsOn(t, ID) == ID \in Inputs[t]

\* one pass of "for _, task := range job.Tasks" from position i on, over the
\* map td: a task that depends on a key of the map is added to it at once,
\* so the tasks after it in the pass see it
RECURSIVE DepsPass(_, _)
DepsPass(td, i) ==
    IF i = NumTasks THEN td
    ELSE DepsPass(IF \E ID \in td : DependsOn(i, ID) THEN td \cup {i} ELSE td, i + 1)

\* mutant: one pass, not repeated
DepsLoopOnePass(td) == DepsPass(td, 0)

\* "for previousSize != size": passes are repeated until one leaves the size
\* of the map unchanged
RECURSIVE DepsLoop(_)
DepsLoop(td) ==
    LET after == DepsPass(td, 0)
    IN IF Cardinality(after) = Cardinality(td) THEN after ELSE DepsLoop(after)

\* main has decoded the job and --deps was given: any job, any set of tasks
\* matched by the names; the preferences play no part in the filter
FilterInit ==
    /\ Inputs \in Graphs
    /\ seeds \in SUBSET Tasks
    /\ todo = {}
    /\ skipped = {}
    /\ windows = FALSE
    /\ aloneCfg = Tasks
    /\ ContinueErr = FALSE
    /\ Workers = MaxWorkers
    /\ vsFound = TRUE
    /\ stalled = {}
    /\ pc = "deps"
    /\ Loaded

\* the first loop of the filter: every task whose label contains one of the
\* names is entered in todo
DepsMatch ==
    /\ pc = "deps"
    /\ todo' = seeds
    /\ pc' = "close"
    /\ UNCHANGED <<Inputs, skipped, aloneCfg, windows, ContinueErr, Workers, vsFound,
                   stalled, seeds, taskVars, chanVars, idx, cost, numRunning,
                   isAloneLaunched, tasksCompleted, err, workerVars, proc, histVars>>

\* the second loop: todo is grown until a pass adds nothing
DepsClose ==
    /\ pc = "close"
    /\ todo' = DepsLoop(todo)
    /\ pc' = "mark"
    /\ UNCHANGED <<Inputs, skipped, aloneCfg, windows, ContinueErr, Workers, vsFound,
                   stalled, seeds, taskVars, chanVars, idx, cost, numRunning,
                   isAloneLaunched, tasksCompleted, err, workerVars, proc, histVars>>

\* the third loop: SetCompleted on every task that is not in todo; main then
\* goes on to call run
DepsMark ==
    /\ pc = "mark"
    /\ skipped' = Tasks \ todo
    /\ Running' = SkipAll(Running, Complete, Tasks \ todo).Running
    /\ Complete' = SkipAll(Running, Complete, Tasks \ todo).Complete
    /\ runningWriters' = IF todo = Tasks THEN runningWriters
                         ELSE runningWriters \cup {"main"}
    /\ pc' = "start"
    /\ UNCHANGED <<Inputs, aloneCfg, windows, ContinueErr, Workers, vsFound, stalled,
                   seeds, todo, Err, chanVars, idx, cost, numRunning,
                   isAloneLaunched, tasksCompleted, err, workerVars, proc, sentCount,
                   buildCount, resultCount, drainCount, delivered, countedTimes,
                   firstMarked>>

FilterNext ==
    \/ DepsMatch
    \/ DepsClose
    \/ DepsMark

\* main from the decoded job to the call of run, with --deps
FilterSpec == FilterInit /\ [][FilterNext]_vars

\* ------------------------------------------------ main: the --start filter
\* mutant: the loop does not stop at the first match and returns the last
SearchLast ==
    IF seeds = {} THEN -1 ELSE CHOOSE m \in seeds : \A x \in seeds : x <= m

\* the loop of Job.Search from position i on: the first position whose label
\* contains the string, -1 when the loop ends
RECURSIVE SearchFrom(_)
SearchFrom(i) ==
    IF i = NumTasks THEN -1
    ELSE IF i \in seeds THEN i ELSE SearchFrom(i + 1)

\* job.Search(gOpts.Start)
Search == SearchFrom(0)

\* the tasks the --start loop calls SetCompleted on before it breaks at
\* position ind, from position cnt on; none when ind is -1
RECURSIVE StartSkips(_, _)
StartSkips(ind, cnt) ==
    IF ind = -1 \/ cnt = NumTasks \/ cnt = ind THEN {}
    ELSE {cnt} \cup StartSkips(ind, cnt + 1)

\* main has decoded the job and --start was given: any job, any set of tasks
\* whose label contains the string
StartInit ==
    /\ Inputs \in Graphs
    /\ seeds \in SUBSET Tasks
    /\ todo = {}
    /\ skipped = {}
    /\ windows = FALSE
    /\ aloneCfg = Tasks
    /\ ContinueErr = FALSE
    /\ Workers = MaxWorkers
    /\ vsFound = TRUE
    /\ stalled = {}
    /\ pc = "startopt"
    /\ Loaded

\* the --start block of main: Search, then SetCompleted on the tasks before
\* the position found; main then goes on to call run
StartFilter ==
    /\ pc = "startopt"
    /\ LET marked == StartSkips(Search, 0) IN
        /\ skipped' = marked
        /\ Running' = SkipAll(Running, Complete, marked).Running
        /\ Complete' = SkipAll(Running, Complete, marked).Complete
        /\ runningWriters' = IF marked = {} THEN runningWriters
                             ELSE runningWriters \cup {"main"}
    /\ pc' = "start"
    /\ UNCHANGED <<Inputs, aloneCfg, windows, ContinueErr, Workers, vsFound, stalled,
                   seeds, todo, Err, chanVars, idx, cost, numRunning,
                   isAloneLaunched, tasksCompleted, err, workerVars, proc, sentCount,
                   buildCount, resultCount, drainCount, delivered, countedTimes,
                   firstMarked>>

\* main from the decoded job to the call of run, with --start
StartSpec == StartInit /\ [][StartFilter]_vars

\* ------------------------------------------------------- scheduler (run)
\* the test of the outer loop, "tasksCompleted < len(job.Tasks) && err == nil":
\* the next position of the scheduler
LoopHead(tc, e) == IF tc < NumTasks /\ e = NoTask THEN "admit" ELSE "closeTasks"

\* mutant: the "|| numRunning == 0" alternative is missing
CanLaunchNoIdle(t) == ~isAloneProject(t) /\ ~isAloneLaunched

\* mutant: the task's own alone class is not tested
CanLaunchAnyClass(t) == ~isAloneLaunched \/ numRunning = 0

\* mutant: a task is launched only while a worker is free
CanLaunchWorkerFree(t) ==
    /\ (~isAloneProject(t) /\ ~isAloneLaunched) \/ numRunning = 0
    /\ numRunning < Workers

\* the exclusivity test of the admission pass
CanLaunch(t) == (~isAloneProject(t) /\ ~isAloneLaunched) \/ numRunning = 0

\* mutant: the Running flag is not tested
AdmitsNoRunningTest(t) == ~IsCompleted(t) /\ ~HasPendingDeps(t) /\ CanLaunch(t)

\* the admission pass admits task t
Admits(t) == ~Running[t] /\ ~IsCompleted(t) /\ ~HasPendingDeps(t) /\ CanLaunch(t)

\* mutant: the tasks already completed are not counted
RunStartNoCount ==
    /\ proc = "alive"
    /\ pc = "start"
    /\ wpc' = [w \in WorkerIds |-> IF w <= Workers THEN "fetch" ELSE "unspawned"]
    /\ tasksCompleted' = 0
    /\ countedTimes' = [t \in Tasks |-> 0]
    /\ pc' = LoopHead(tasksCompleted', err)
    /\ idx' = 0
    /\ UNCHANGED <<cfgVars, taskVars, chanVars, cost, numRunning, isAloneLaunched,
                   err, wtask, werr, proc, sentCount, buildCount, resultCount,
                   drainCount, delivered, firstMarked,
                   runningWriters>>

\* mutant: a goroutine is spawned for every worker slot, whatever GPrefs.Workers
RunStartSpawnAll ==
    /\ proc = "alive"
    /\ pc = "start"
    /\ wpc' = [w \in WorkerIds |-> "fetch"]
    /\ tasksCompleted' = Cardinality({t \in Tasks : IsCompleted(t)})
    /\ countedTimes' = [t \in Tasks |-> IF IsCompleted(t) THEN 1 ELSE 0]
    /\ pc' = LoopHead(tasksCompleted', err)
    /\ idx' = 0
    /\ UNCHANGED <<cfgVars, taskVars, chanVars, cost, numRunning, isAloneLaunched,
                   err, wtask, werr, proc, sentCount, buildCount, resultCount,
                   drainCount, delivered, firstMarked,
                   runningWriters>>

\* run up to the outer loop: the workers are spawned and the tasks already
\* completed (skipped by main's filters) are counted
RunStart ==
    /\ proc = "alive"
    /\ pc = "start"
    /\ wpc' = [w \in WorkerIds |-> IF w <= Workers THEN "fetch" ELSE "unspawned"]
    /\ tasksCompleted' = Cardinality({t \in Tasks : IsCompleted(t)})
    /\ countedTimes' = [t \in Tasks |-> IF IsCompleted(t) THEN 1 ELSE 0]
    /\ pc' = LoopHead(tasksCompleted', err)
    /\ idx' = 0
    /\ UNCHANGED <<cfgVars, taskVars, chanVars, cost, numRunning, isAloneLaunched,
                   err, wtask, werr, proc, sentCount, buildCount, resultCount,
                   drainCount, delivered, firstMarked,
                   runningWriters>>

\* one iteration of the admission pass's range loop, on task idx
AdmitStep ==
    /\ proc = "alive"
    /\ pc = "admit"
    /\ IF Admits(idx)
       THEN /\ Len(tasks) < NumTasks      \* a send on a full channel blocks
            /\ isAloneLaunched' = isAloneProject(idx)
            /\ Running' = [Running EXCEPT ![idx] = TRUE]
            /\ cost' = cost + Cost(idx)
            /\ numRunning' = numRunning + 1
            /\ tasks' = Append(tasks, idx)
            /\ sentCount' = [sentCount EXCEPT ![idx] = @ + 1]
            /\ runningWriters' = runningWriters \cup {"main"}
       ELSE UNCHANGED <<isAloneLaunched, Running, cost, numRunning, tasks, sentCount,
                        runningWriters>>
    /\ IF idx + 1 < NumTasks
       THEN idx' = idx + 1 /\ pc' = "admit"
       ELSE idx' = 0 /\ pc' = "drain"
    /\ UNCHANGED <<cfgVars, Complete, Err, tasksClosed, messagesClosed, results,
                   tasksCompleted, err, workerVars, proc, buildCount, resultCount,
                   drainCount, delivered, countedTimes, firstMarked>>

\* mutant: a later failure replaces the recorded one
NextErrLast(task) == IF Err[task] /\ ~ContinueErr THEN task ELSE err

\* mutant: continue-on-error is not consulted
NextErrAlways(task) == IF Err[task] /\ err = NoTask THEN task ELSE err

\* run's err after draining task: "if err == nil && !gOpts.ContinueErr"
NextErr(task) == IF Err[task] /\ err = NoTask /\ ~ContinueErr THEN task ELSE err

\* the select receives a result
DrainRecv ==
    /\ proc = "alive"
    /\ pc = "drain"
    /\ results # <<>>
    /\ LET task == Head(results) IN
        /\ results' = Tail(results)
        /\ tasksCompleted' = tasksCompleted + 1
        /\ numRunning' = numRunning - 1
        /\ isAloneLaunched' = FALSE
        /\ cost' = cost - Cost(task)
        /\ err' = NextErr(task)
        /\ drainCount' = [drainCount EXCEPT ![task] = @ + 1]
        /\ countedTimes' = [countedTimes EXCEPT ![task] = @ + 1]
        \* inner loop test "continueFlag && tasksCompleted < len(job.Tasks)",
        \* then the outer loop test
        /\ pc' = IF tasksCompleted' < NumTasks THEN "drain"
                 ELSE LoopHead(tasksCompleted', err')
    /\ UNCHANGED <<cfgVars, taskVars, tasks, tasksClosed, messagesClosed, idx,
                   workerVars, proc, sentCount, buildCount, resultCount,
                   delivered, firstMarked,
                   runningWriters>>

\* the select times out: no result arrived for a second (the timer is created
\* as the select is entered, so a result already queued is received first)
DrainTimeout ==
    /\ proc = "alive"
    /\ pc = "drain"
    /\ results = <<>>
    /\ pc' = LoopHead(tasksCompleted, err)
    /\ UNCHANGED <<cfgVars, taskVars, chanVars, idx, cost, numRunning,
                   isAloneLaunched, tasksCompleted, err, workerVars, proc, histVars>>

CloseTasks ==
    /\ proc = "alive"
    /\ pc = "closeTasks"
    /\ tasksClosed' = TRUE
    /\ pc' = "closeMessages"
    /\ UNCHANGED <<cfgVars, taskVars, tasks, messagesClosed, results, idx, cost,
                   numRunning, isAloneLaunched, tasksCompleted, err, workerVars,
                   proc, histVars>>

CloseMessages ==
    /\ proc = "alive"
    /\ pc = "closeMessages"
    /\ messagesClosed' = TRUE
    /\ pc' = "returned"
    /\ UNCHANGED <<cfgVars, taskVars, tasks, tasksClosed, results, idx, cost,
                   numRunning, isAloneLaunched, tasksCompleted, err, workerVars,
                   proc, histVars>>

\* main after run returned: panic(err) on an error, else the process ends
MainExit ==
    /\ proc = "alive"
    /\ pc = "returned"
    /\ proc' = IF err # NoTask THEN "panicked" ELSE "exited"
    /\ UNCHANGED <<cfgVars, taskVars, chanVars, schedVars, workerVars, histVars>>

\* ------------------------------------------------ worker (workerFetchTask)
\* mutant: the worker takes the next task before it forwards the result
AtRangeEarly(w) == wpc[w] \in {"fetch", "result"}

\* the worker is at the head of "for task := range tasks"
AtRange(w) == wpc[w] = "fetch"

\* mutant: build does not look for the compiler
checkWinCompilerSkipped == TRUE

\* checkWinCompiler returns (it panics when none of the directories exists);
\* build calls it on Windows only
checkWinCompiler == windows => vsFound

\* the range loop receives a task and calls build, which checks the compiler
\* before it starts the build command
WorkerFetch(w) ==
    /\ proc = "alive"
    /\ AtRange(w)
    /\ tasks # <<>>
    /\ LET task == Head(tasks) IN
        /\ tasks' = Tail(tasks)
        /\ wtask' = [wtask EXCEPT ![w] = task]
        /\ buildCount' = [buildCount EXCEPT ![task] = @ + 1]
    /\ werr' = [werr EXCEPT ![w] = FALSE]
    /\ wpc' = [wpc EXCEPT ![w] = "build"]
    /\ proc' = IF checkWinCompiler THEN proc ELSE "fatal"
    /\ UNCHANGED <<cfgVars, taskVars, tasksClosed, messagesClosed, results,
                   schedVars, sentCount, resultCount, drainCount, delivered,
                   countedTimes, firstMarked,
                   runningWriters>>

\* the range loop ends: the channel is closed and empty
WorkerExit(w) ==
    /\ proc = "alive"
    /\ AtRange(w)
    /\ tasks = <<>>
    /\ tasksClosed
    /\ wpc' = [wpc EXCEPT ![w] = "exit"]
    /\ UNCHANGED <<cfgVars, taskVars, chanVars, schedVars, wtask, werr, proc, histVars>>

\* the build command returns, with or without an error, and the worker
\* calls task.SetCompleted()
WorkerBuildDone(w, failed) ==
    /\ proc = "alive"
    /\ wpc[w] = "build"
    /\ wtask[w] \notin stalled
    /\ LET task == wtask[w] IN
        /\ Running' = SetCompleted(Running, Complete, task).Running
        /\ Complete' = SetCompleted(Running, Complete, task).Complete
        /\ firstMarked' = IF failed /\ firstMarked = NoTask THEN task ELSE firstMarked
    /\ runningWriters' = runningWriters \cup {"worker"}
    /\ werr' = [werr EXCEPT ![w] = failed]
    /\ wpc' = [wpc EXCEPT ![w] = "output"]
    /\ UNCHANGED <<cfgVars, Err, chanVars, schedVars, wtask, proc, sentCount,
                   buildCount, resultCount, drainCount, delivered, countedTimes>>

\* "messages <- task.Output": the unbuffered send completes when workerStdout
\* receives it; a send on the closed channel panics
WorkerSendOutput(w) ==
    /\ proc = "alive"
    /\ wpc[w] = "output"
    /\ IF messagesClosed
       THEN /\ proc' = "panicked"
            /\ UNCHANGED <<wpc, delivered>>
       ELSE /\ delivered' = [delivered EXCEPT ![wtask[w]] = @ + 1]
            /\ wpc' = [wpc EXCEPT ![w] = "result"]
            /\ UNCHANGED proc
    /\ UNCHANGED <<cfgVars, taskVars, chanVars, schedVars, wtask, werr, sentCount,
                   buildCount, resultCount, drainCount, countedTimes, firstMarked,
                   runningWriters>>

\* "task.Err = err" when the build failed, then "results <- task"
WorkerSendResult(w) ==
    /\ proc = "alive"
    /\ wpc[w] = "result"
    /\ Len(results) < NumTasks            \* a send on a full channel blocks
    /\ LET task == wtask[w] IN
        /\ Err' = [Err EXCEPT ![task] = @ \/ werr[w]]
        /\ results' = Append(results, task)
        /\ resultCount' = [resultCount EXCEPT ![task] = @ + 1]
    /\ wtask' = [wtask EXCEPT ![w] = NoTask]
    /\ werr' = [werr EXCEPT ![w] = FALSE]
    /\ wpc' = [wpc EXCEPT ![w] = "fetch"]
    /\ UNCHANGED <<cfgVars, Running, Complete, tasks, tasksClosed, messagesClosed,
                   schedVars, proc, sentCount, buildCount, drainCount, delivered,
                   countedTimes, firstMarked,
                   runningWriters>>

Scheduler ==
    \/ RunStart
    \/ AdmitStep
    \/ DrainRecv
    \/ DrainTimeout
    \/ CloseTasks
    \/ CloseMessages
    \/ MainExit

Worker(w) ==
    \/ WorkerFetch(w)
    \/ WorkerExit(w)
    \/ \E failed \in BOOLEAN : WorkerBuildDone(w, failed)
    \/ WorkerSendOutput(w)
    \/ WorkerSendResult(w)

Next ==
    \/ Scheduler
    \/ \E w \in WorkerIds : Worker(w)

Spec == Init /\ [][Next]_vars

\* every goroutine that can take a step eventually takes one: the Go scheduler
\* runs every runnable goroutine, the timeout of the select fires after a
\* second, and every build command terminates (WorkerBuildDone)
Fairness ==
    /\ WF_vars(Scheduler)
    /\ \A w \in WorkerIds : WF_vars(Worker(w))

\* the runs the liveness claims are about: an acyclic job and a pool of at
\* least one worker, on Windows with the compiler found, where the Alone
\* flags act (a placement with no flag behaves as any other OS does); the job
\* is filtered or carries Alone flags, not both
LiveInit ==
    /\ Init
    /\ Acyclic
    /\ windows
    /\ vsFound
    /\ Workers >= 1
    /\ (skipped = {} \/ aloneCfg = {})

FairSpec == LiveInit /\ [][Next]_vars /\ Fairness

\* runs in which some build commands hang: the process started by build
\* stays alive at no CPU use and cmd.CombinedOutput() never returns
StallInit ==
    /\ Inputs \in Graphs
    /\ Acyclic
    /\ skipped = {}
    /\ windows = FALSE
    /\ aloneCfg = Tasks
    /\ ContinueErr \in BOOLEAN
    /\ Workers \in 1 .. MaxWorkers
    /\ vsFound = TRUE
    /\ stalled \in (SUBSET Tasks) \ {{}}
    /\ seeds = {}
    /\ todo = {}
    /\ pc = "start"
    /\ Loaded

StallSpec == StallInit /\ [][Next]_vars /\ Fairness

\* the tasks reachable from the set S along dependency edges through tasks
\* that are not skipped
RECURSIVE LiveDepsOf(_, _)
LiveDepsOf(S, n) ==
    IF n = 0 THEN S
    ELSE LiveDepsOf(S \cup (UNION {Inputs[t] : t \in S} \ skipped), n - 1)

\* t lies on a dependency cycle none of whose tasks is skipped
OnCycle(t) == t \notin skipped /\ t \in LiveDepsOf(Inputs[t] \ skipped, NumTasks)

\* the job documents with a dependency cycle: graphs of at most MaxCycleEdges
\* edges
CycleGraphs == {g \in [Tasks -> SUBSET Tasks] : EdgeCount(g, NumTasks) <= MaxCycleEdges}

\* main is about to call run on a job with a dependency cycle that the
\* filters left whole
CycleInit ==
    /\ Inputs \in CycleGraphs
    /\ skipped \in SUBSET Tasks
    /\ \E t \in Tasks : OnCycle(t)
    /\ windows = FALSE
    /\ aloneCfg = Tasks
    /\ ContinueErr \in BOOLEAN
    /\ Workers \in 0 .. MaxWorkers
    /\ vsFound = TRUE
    /\ stalled = {}
    /\ seeds = {}
    /\ todo = {}
    /\ pc = "start"
    /\ Loaded

CycleSpec == CycleInit /\ [][Next]_vars

\* ================================================================ claims
\* the scheduler has admitted t: Running set by run and t sent to the ready
\* queue (a skipped task has Running set by SetCompleted, it is not admitted)
Admitted(t) == sentCount[t] > 0 \/ (Running[t] /\ t \notin skipped)

\* Running in the sense of the claims: from admission until the completion
\* marker is set
RunningNow == {t \in Tasks : Admitted(t) /\ ~IsCompleted(t)}

\* C1: a task is never admitted (Running flag set, sent to the ready queue)
\* while one of the tasks in its Inputs has its completion marker unset; as
\* the marker is never cleared, every admitted task has all its inputs
\* completed in every state.
C1_NoAdmissionBeforeDeps ==
    \A t \in Tasks : Admitted(t) => \A d \in Inputs[t] : Complete[d] = 1

\* C1 witness: a task with a dependency that was itself built has been admitted
C1_Witness ==
    \E t \in Tasks : sentCount[t] > 0 /\ \E d \in Inputs[t] : buildCount[d] > 0

\* C2: no two alone-class tasks are Running together and no other task is
\* Running while an alone-class task is Running.
C2_AloneIsExclusive ==
    \A a \in RunningNow : isAloneProject(a) => RunningNow = {a}

\* C2 witness: an alone-class task is Running, an admission pass has ended, and
\* another task with no pending dependency is held back although a worker is idle
C2_Witness ==
    /\ pc = "drain"
    /\ \E a \in RunningNow :
          /\ isAloneProject(a)
          /\ \E b \in Tasks \ {a} : ~Running[b] /\ ~HasPendingDeps(b)
    /\ \E w \in WorkerIds : wpc[w] = "fetch"

AllCompleted == \A t \in Tasks : IsCompleted(t)

\* some build command has failed
SomeBuildFailed == firstMarked # NoTask

\* C3 as stated: for an acyclic graph, with terminating builds and fair
\* scheduling (FairSpec), run eventually reaches a state where every task is
\* Completed.
C3_Original == <>AllCompleted

\* C3 amended: for an acyclic graph and at least one worker, with terminating
\* builds and fair scheduling (FairSpec), eventually every task is Completed,
\* unless a build fails under the stop-on-error policy.
C3_EventuallyAllCompleted == <>(AllCompleted \/ (~ContinueErr /\ SomeBuildFailed))

\* C3 witness: run returned with every task of a dependency chain built
C3_Witness ==
    /\ pc = "returned"
    /\ AllCompleted
    /\ \E t \in Tasks : buildCount[t] > 0 /\ \E d \in Inputs[t] : buildCount[d] > 0

\* the scheduler has observed a failure under the stop-on-error policy: it
\* drained a result whose Err is set, which is when run's err is set
FailureObserved == ~ContinueErr /\ err # NoTask

\* C4 as stated: under stop-on-error, once the scheduler has observed a
\* failure no task goes from Pending to Running and no build command of a
\* task that had not started executing is started.
C4_Original ==
    [][FailureObserved =>
         /\ sentCount' = sentCount
         /\ \A t \in Tasks : Running'[t] = Running[t]
         /\ buildCount' = buildCount]_vars

\* C5 as stated: under stop-on-error, after a failure is observed run does not
\* close its queues and return until every task admitted before has completed
\* and had its result drained.
C5_Original ==
    (FailureObserved /\ tasksClosed) =>
        \A t \in Tasks : sentCount[t] > 0 => (IsCompleted(t) /\ drainCount[t] > 0)

\* C6 as stated: when a task failed, the error run reports is the error of the
\* task that failed first in the order the workers set the completion marker.
C6_Original ==
    (pc = "returned" /\ SomeBuildFailed) => err = firstMarked

\* C6 amended: under stop-on-error the error run reports is the error of the
\* first failed task whose result the scheduler drained, it is set when that
\* result is drained and a later failure never replaces it; under
\* continue-on-error run reports no error.
C6_FirstDrainedFailureReported ==
    [][/\ ContinueErr => err' = NoTask
       /\ err # NoTask => err' = err
       /\ (err = NoTask /\ err' # NoTask) =>
             /\ results # <<>>
             /\ err' = Head(results)
             /\ Err[err']
             /\ \A t \in Tasks : drainCount[t] > 0 => ~Err[t]
       /\ (~ContinueErr /\ drainCount' # drainCount /\ Err[Head(results)]) =>
             err' # NoTask]_vars

\* C6 witness: run returned an error that is not the error of the first task
\* marked failed, and a second failure was drained without replacing it
C6_Witness ==
    /\ pc = "returned"
    /\ err # NoTask
    /\ firstMarked # err
    /\ \E t \in Tasks \ {err} : Err[t] /\ drainCount[t] > 0

\* the outer loop of run has ended
LoopEnded == pc \in {"closeTasks", "closeMessages", "returned"}

\* C7: under continue-on-error a failure never stops admission: run's err is
\* never set, the loop ends only when every task is Completed and every
\* result drained, and (acyclic graph, at least one worker, terminating
\* builds: FairSpec) the loop does end so.
C7_ContinueOnError ==
    /\ [](ContinueErr => (err = NoTask /\ (LoopEnded => AllCompleted /\ results = <<>>)))
    /\ <>(~ContinueErr \/ (LoopEnded /\ AllCompleted))

\* C7 witness: under continue-on-error, after a failure was drained, the
\* admission pass is at a task that it admits
C7_Witness ==
    /\ ContinueErr
    /\ \E t \in Tasks : Err[t] /\ drainCount[t] > 0
    /\ pc = "admit"
    /\ Admits(idx)

RECURSIVE SumTo(_, _)
SumTo(f, n) == IF n = 0 THEN 0 ELSE f[n - 1] + SumTo(f, n - 1)

\* t is in the ready queue
Queued(t) == \E i \in 1 .. Len(tasks) : tasks[i] = t

\* C8: a task skipped before the run is Completed in every state, is never
\* sent to the ready queue, never built, and counted exactly once in
\* tasksCompleted (which is the number of tasksCompleted++ executed).
C8_SkippedNeverRuns ==
    /\ \A t \in skipped :
          /\ IsCompleted(t)
          /\ sentCount[t] = 0
          /\ ~Queued(t)
          /\ buildCount[t] = 0
          /\ resultCount[t] = 0
          /\ pc # "start" => countedTimes[t] = 1
    /\ tasksCompleted = SumTo(countedTimes, NumTasks)

\* C8 witness: run returned, a task was skipped and a task depending on it was built
C8_Witness ==
    /\ pc = "returned"
    /\ \E t \in Tasks : buildCount[t] > 0 /\ Inputs[t] \cap skipped # {}

\* the workers holding task t
Holders(t) == {w \in WorkerIds : wtask[w] = t}

Executing == {t \in Tasks : buildCount[t] > 0 /\ ~IsCompleted(t)}

\* C10: at most Workers build commands execute at any instant, every task
\* built and not yet reported is held by exactly one worker, and a worker
\* takes a task only when it holds none: it has set the completion marker of
\* the previous one and forwarded its output and its result.
C10_OneTaskPerWorker ==
    /\ [](/\ Cardinality(Executing) <= Workers
          /\ \A t \in Tasks :
                (buildCount[t] > 0 /\ resultCount[t] = 0) => Cardinality(Holders(t)) = 1
          /\ \A w \in WorkerIds :
                wtask[w] # NoTask =>
                    /\ buildCount[wtask[w]] = 1
                    /\ resultCount[wtask[w]] = 0
                    /\ wpc[w] = "result" =>
                          IsCompleted(wtask[w]) /\ delivered[wtask[w]] = 1)
    /\ [][\A w \in WorkerIds :
            (wtask'[w] # wtask[w] /\ wtask'[w] # NoTask) => wtask[w] = NoTask]_vars

\* C10 witness: every worker of a pool of two executes a build while a third
\* task waits in the ready queue
C10_Witness ==
    /\ Workers = 2
    /\ Cardinality(Executing) = 2
    /\ tasks # <<>>

\* C11: the ready queue and the result queue never hold more than NumTasks
\* items, and no send on them ever blocks: whenever the admission pass is
\* about to send a task the ready queue has a free slot, and whenever a
\* worker is about to report a result the result queue has a free slot.
C11_QueuesNeverBlock ==
    /\ Len(tasks) <= NumTasks
    /\ Len(results) <= NumTasks
    /\ (pc = "admit" /\ Admits(idx)) => Len(tasks) < NumTasks
    /\ \A w \in WorkerIds : wpc[w] = "result" => Len(results) < NumTasks
    /\ \A t \in Tasks :
          /\ Len(SelectSeq(tasks, LAMBDA x : x = t)) <= 1
          /\ Len(SelectSeq(results, LAMBDA x : x = t)) <= 1

\* C11 witness: a worker reports the last result while the results of all
\* the other tasks wait in the result queue
C11_Witness ==
    /\ Len(results) = NumTasks - 1
    /\ \E w \in WorkerIds : wpc[w] = "result"

\* C12 (as stated): while every worker of a pool of at least one is busy no
\* further task is marked Running: the tasks marked Running and not yet
\* Completed never outnumber the workers.
C12_Original ==
    (Workers >= 1 /\ Cardinality(Executing) = Workers) =>
        Cardinality(RunningNow) <= Workers

\* C12: a task that becomes ready while every worker is busy is admitted all
\* the same: it is marked Running and waits in the ready queue.  Every task
\* marked Running and not yet Completed is either in the ready queue or being
\* built by a worker, never both, and the tasks being built never outnumber
\* the workers.
C12_SaturatedPoolQueues ==
    /\ \A t \in RunningNow : Queued(t) # (t \in Executing)
    /\ Cardinality(Executing) <= Workers
    /\ Cardinality(RunningNow) <= Cardinality(Executing) + Len(tasks)

\* C12 witness: the only worker is building one task while two more tasks,
\* marked Running, wait in the ready queue
C12_Witness ==
    /\ Workers = 1
    /\ Cardinality(Executing) = 1
    /\ Cardinality(RunningNow) = NumTasks
    /\ Len(tasks) = NumTasks - 1

\* the tasks that depend, directly or through other tasks, on a task of S,
\* and the tasks of S
Dependents(S) == {t \in Tasks : DepsOf({t}, NumTasks) \cap S # {}}

\* C13: the set the --deps filter computes is a fixed point of its own
\* computation: one more pass over it adds nothing, and the whole loop run
\* on it returns it unchanged; it contains the matched tasks.
C13_ClosureIsFixedPoint ==
    pc \in {"mark", "start"} =>
        /\ seeds \subseteq todo
        /\ DepsPass(todo, 0) = todo
        /\ DepsLoop(todo) = todo

\* C13 witness: the closure is computed and needed a second pass: a task was
\* added that the first pass over the matched tasks did not reach
C13_Witness ==
    /\ pc = "mark"
    /\ DepsPass(seeds, 0) # todo

\* C14: SetCompleted called on a task whose marker is set writes the values
\* the Running flag and the marker already have (it writes nothing else: not
\* the error, not a counter of run), whether a worker or a filter of main
\* set the marker.
C14_SetCompletedIdempotent ==
    \A t \in Tasks :
        IsCompleted(t) =>
            SetCompleted(Running, Complete, t) = [Running |-> Running, Complete |-> Complete]

\* C14 witness: one task was completed by a worker and drained, another was
\* skipped by a filter
C14_Witness ==
    /\ \E t \in Tasks : IsCompleted(t) /\ buildCount[t] = 1 /\ drainCount[t] = 1
    /\ \E t \in skipped : IsCompleted(t) /\ buildCount[t] = 0

\* C18: when the --deps filter has run, the tasks not skipped are exactly the
\* matched tasks and the tasks that depend on one, directly or transitively;
\* the skipped tasks are exactly the Completed ones, and when no task matches
\* every task is skipped.
C18_KeptAreDependents ==
    pc = "start" =>
        /\ Tasks \ skipped = Dependents(seeds)
        /\ todo = Dependents(seeds)
        /\ \A t \in Tasks : IsCompleted(t) <=> t \in skipped
        /\ seeds = {} => skipped = Tasks

\* C18 witness: the filter kept a task that depends on a matched task only
\* through another task
C18_Witness ==
    /\ pc = "start"
    /\ seeds # {}
    /\ \E t \in Tasks \ skipped : t \notin seeds /\ Inputs[t] \cap seeds = {}

\* C15 (as stated): a build command that hangs at no CPU use is terminated
\* and its task is reported as failed, as long as the process lives.
C15_Original ==
    \A t \in Tasks :
        (t \in stalled /\ t \in Executing) ~>
            ((resultCount[t] > 0 /\ Err[t]) \/ proc # "alive")

\* C16 (as stated): when no Visual Studio directory exists the fatal error is
\* raised before any task is admitted, and no task has an error recorded.
C16_Original ==
    proc = "fatal" =>
        \A t \in Tasks : sentCount[t] = 0 /\ ~Admitted(t) /\ ~Err[t]

\* C16: on Windows with no Visual Studio directory, the fatal error is raised
\* by the first call of build, before a build command is started: the task
\* that build was called for has been admitted and is marked Running; no
\* build ever returns, so no task is completed by a worker, no output and no
\* result is sent, no task has an error recorded and run's err stays nil.
C16_FatalAtFirstBuild ==
    /\ (windows /\ ~vsFound) =>
          /\ SumTo(buildCount, NumTasks) <= 1
          /\ err = NoTask
          /\ \A t \in Tasks :
                /\ IsCompleted(t) => t \in skipped
                /\ ~Err[t] /\ delivered[t] = 0 /\ resultCount[t] = 0
                /\ buildCount[t] = 1 =>
                      proc = "fatal" /\ sentCount[t] = 1 /\ Running[t]
    /\ proc = "fatal" =>
          /\ windows /\ ~vsFound
          /\ \E w \in WorkerIds : wpc[w] = "build" /\ buildCount[wtask[w]] = 1

\* C16 witness: the fatal error is raised while the task given to build and
\* another admitted task are marked Running
C16_Witness ==
    /\ proc = "fatal"
    /\ Cardinality(RunningNow) >= 2

\* the tasks admitted whose result the scheduler has not drained
InFlight == {t \in Tasks : sentCount[t] > 0 /\ drainCount[t] = 0}

\* the alone rule of the admission pass for task t, R being the tasks that
\* count as running: (a) t is alone-class and another task runs, or (b)
\* another alone-class task runs
AloneRuleBlocks(t, R) ==
    \/ isAloneProject(t) /\ R \ {t} # {}
    \/ \E a \in R \ {t} : isAloneProject(a)

\* the admission pass examines task idx, which is Pending with every
\* dependency Completed, and moves on
ExaminesReady ==
    /\ pc = "admit"
    /\ idx' # idx \/ pc' # pc
    /\ ~Running[idx] /\ ~IsCompleted(idx) /\ ~HasPendingDeps(idx)

\* the step admits task idx: Running set, sent to the ready queue
AdmitsIdx == Running'[idx] /\ sentCount'[idx] = sentCount[idx] + 1

\* C17 (as stated): with a task Running from admission until its completion
\* marker is set, the pass admits a ready Pending task exactly when the
\* alone rule does not block it.
C17_Original ==
    [][ExaminesReady => (AdmitsIdx <=> ~AloneRuleBlocks(idx, RunningNow))]_vars

\* C17: with a task Running from admission until the scheduler has drained
\* its result, the pass admits a ready Pending task exactly when the alone
\* rule does not block it (nothing else decides: not the workers, not the
\* costs), and a task it does not admit is left untouched.
C17_AdmissionRule ==
    [][ExaminesReady =>
         /\ AdmitsIdx <=> ~AloneRuleBlocks(idx, InFlight)
         /\ ~AdmitsIdx => (Running'[idx] = Running[idx] /\ sentCount' = sentCount)]_vars

\* C17 witness: with one worker, two independent tasks that are not
\* alone-class have been admitted in the first pass, before any build began
C17_Witness ==
    /\ Workers = 1
    /\ pc = "admit"
    /\ idx = 2
    /\ Inputs[0] = {} /\ Inputs[1] = {}
    /\ ~isAloneProject(0) /\ ~isAloneProject(1)
    /\ sentCount[0] = 1 /\ sentCount[1] = 1
    /\ \A t \in Tasks : buildCount[t] = 0

\* the tasks that depend on a task of a cycle, through any tasks
CycleDependents == {t \in Tasks : \E c \in DepsOf({t}, NumTasks) : OnCycle(c)}

\* the tasks not skipped that depend on a task of a cycle through tasks that
\* are not skipped (the tasks of the cycle are among them)
CycleBlocked ==
    {t \in Tasks \ skipped : \E c \in LiveDepsOf({t}, NumTasks) : OnCycle(c)}

\* what a cycle does to run: never every task Completed, and the loop ends
\* only by a failure under stop-on-error
NeverDone == ~AllCompleted /\ (LoopEnded => FailureObserved)

\* C19 (as stated): no task of a cycle and no task that depends on one,
\* however indirectly, is ever admitted or gets an error, and run does not
\* finish.
C19_Original ==
    /\ \A t \in CycleDependents : sentCount[t] = 0 /\ ~Err[t] /\ err # t
    /\ NeverDone

\* C19: no task of a cycle, and no task that depends on one through tasks
\* that are not skipped, is ever admitted, built, Completed or given an
\* error; so not every task is ever Completed and, unless a build fails
\* under stop-on-error, the loop of run never ends.
C19_CycleNeverAdmitted ==
    /\ \A t \in CycleBlocked :
          /\ sentCount[t] = 0 /\ buildCount[t] = 0
          /\ ~Running[t] /\ ~IsCompleted(t)
          /\ ~Err[t] /\ err # t
    /\ (CycleBlocked # {}) => NeverDone

\* C19 witness: with a cycle in the job, the scheduler has drained the
\* result of a task outside of it and is in a later admission pass
C19_Witness ==
    /\ CycleBlocked # {}
    /\ pc = "admit"
    /\ \E t \in Tasks : drainCount[t] = 1

\* C20 (as stated): marker, then output, then result; a drained task is
\* Completed with its output received; and when run has returned with every
\* task Completed, the output of every task built has been received.
C20_Original ==
    /\ \A t \in Tasks :
          /\ delivered[t] > 0 => IsCompleted(t)
          /\ resultCount[t] > 0 => delivered[t] = 1
          /\ drainCount[t] > 0 => (IsCompleted(t) /\ delivered[t] = 1)
    /\ (pc = "returned" /\ AllCompleted) =>
          \A t \in Tasks : buildCount[t] > 0 => delivered[t] = 1

\* C21 (as stated): once run has closed the ready queue, no worker is
\* building a task or waiting to hand over an output, so no worker sends on
\* the closed output queue.
C21_Original ==
    tasksClosed => \A w \in WorkerIds : wpc[w] \notin {"build", "output"}

\* the build of task d has returned an error
BuildFailed(d) == Err[d] \/ \E w \in WorkerIds : wtask[w] = d /\ werr[w]

\* C22 (as stated): under stop-on-error no admitted task has a dependency
\* whose build failed.
C22_Original ==
    ~ContinueErr =>
        \A t \in Tasks : sentCount[t] > 0 => \A d \in Inputs[t] : ~BuildFailed(d)

\* C23: numRunning is the number of tasks admitted and not yet drained;
\* while isAloneLaunched is set exactly one task is in flight and it is
\* alone-class; the step that clears a set isAloneLaunched drains the result
\* of an alone-class task.
C23_RunningCounters ==
    /\ [](/\ numRunning = Cardinality(InFlight)
          /\ numRunning >= 0
          /\ isAloneLaunched =>
                (numRunning = 1 /\ \A t \in InFlight : isAloneProject(t)))
    /\ [][(isAloneLaunched /\ ~isAloneLaunched') =>
            \E t \in Tasks :
                /\ isAloneProject(t)
                /\ InFlight = {t}
                /\ drainCount'[t] = drainCount[t] + 1]_vars

\* C23 witness: the scheduler has drained the result of an alone-class task
\* it had launched with another task waiting, and nothing is in flight
C23_Witness ==
    /\ \E t \in Tasks : isAloneProject(t) /\ drainCount[t] = 1 /\ buildCount[t] = 1
    /\ \E t \in Tasks : ~isAloneProject(t) /\ ~IsCompleted(t)
    /\ ~isAloneLaunched
    /\ numRunning = 0

\* the sum of the Cost of the tasks of S
CostOf(S) == SumTo([t \in Tasks |-> IF t \in S THEN Cost(t) ELSE 0], NumTasks)

\* C24 (as stated): cost is the sum of the Cost of the tasks in flight, and
\* it is 0 when run has returned with every task Completed.
C24_Original ==
    /\ cost = CostOf(InFlight)
    /\ (pc = "returned" /\ AllCompleted) => cost = 0

\* C25: once run has counted the tasks completed beforehand, tasksCompleted
\* is their number plus the number of results drained, it is at most
\* NumTasks, every task counted has its marker set, and when the loop has
\* ended with tasksCompleted = NumTasks every task is Completed and both
\* queues are empty.
C25_TasksCompletedCounter ==
    pc # "start" =>
        /\ tasksCompleted = Cardinality(skipped) + SumTo(drainCount, NumTasks)
        /\ tasksCompleted = SumTo(countedTimes, NumTasks)
        /\ tasksCompleted <= NumTasks
        /\ \A t \in Tasks : countedTimes[t] > 0 => IsCompleted(t)
        /\ (LoopEnded /\ tasksCompleted = NumTasks) =>
              (AllCompleted /\ tasks = <<>> /\ results = <<>>)

\* C25 witness: the loop has ended with tasksCompleted = NumTasks, one task
\* counted at the start and the others by draining their results
C25_Witness ==
    /\ LoopEnded
    /\ tasksCompleted = NumTasks
    /\ Cardinality(skipped) = 1
    /\ SumTo(drainCount, NumTasks) = NumTasks - 1

\* C26 (as stated): the Running flag is stored to by the scheduler goroutine
\* only (main and the run it calls), and Running is not read by the scheduler
\* while a worker may store to it: there is no state in which the admission
\* pass is about to test the Running flag of a task whose worker is about to
\* call SetCompleted on it.
C26_Original ==
    /\ runningWriters \subseteq {"main"}
    /\ ~\E w \in WorkerIds : pc = "admit" /\ wpc[w] = "build" /\ wtask[w] = idx

\* C27: Search returns the smallest position whose label contains the
\* string, or -1 when none does; when the --start filter has run, the
\* skipped tasks are exactly those at positions below that position, none
\* when nothing matches, and they are the tasks with the marker set.
C27_StartSkipsBelowFirstMatch ==
    /\ seeds = {} => Search = -1
    /\ seeds # {} => (Search \in seeds /\ \A m \in seeds : Search <= m)
    /\ pc = "start" =>
          /\ skipped = IF seeds = {} THEN {}
                       ELSE {t \in Tasks : \A m \in seeds : t < m}
          /\ \A t \in Tasks : IsCompleted(t) <=> t \in skipped

\* C27 witness: two labels contain the string and the filter has skipped
\* the task before the first of them
C27_Witness ==
    /\ pc = "start"
    /\ Cardinality(seeds) >= 2
    /\ skipped # {}

====
